---------------------------- MODULE Spec2Model ----------------------------
(***************************************************************************)
(* Model of scripts/extract-ministry-from-ichiran.py: the recovery of      *)
(* (ministry, category, bureau, section) records from the text of the      *)
(* "list of administrative organs" PDF.                                    *)
(*                                                                         *)
(* Text is a sequence of characters.  A character is written as a short    *)
(* ASCII name:                                                             *)
(*   "NL" newline, "FF" form feed, " " space, "TAB" tab, "wsp" U+3000      *)
(*   "<" U+FF1C, ">" U+FF1E, "[" U+FF3B, "]" U+FF3D, "," U+3001 (list      *)
(*   delimiter), "~" U+FF5E, "w(" "w)" full-width parentheses, "(" ")"     *)
(*   half-width parentheses, "lb" U+3010                                   *)
(*   "0".."9" ASCII digits, "F0".."F9" full-width digits                   *)
(*   "k1".."k9" kanji numerals one..nine, "k10" kanji ten, "dai" the       *)
(*   ordinal prefix                                                        *)
(*   "R1".."R12" / "r1".."r10" roman numeral glyphs, "X" "x" "i" "v" "l"   *)
(*   "A".."I" ASCII capitals, "wA".."wI" / "wa".."wf" full-width letters   *)
(*   "shou" "chou" "in" "fu" top-level suffixes; "kyoku" "bu" "jo" "sho"   *)
(*   "tai" "kai" "kou" "ku" "yakata" organisational suffixes; "ki" "seki"  *)
(*   category suffixes; "ka" "shitsu" "han" "kakari" "kan" section         *)
(*   suffixes; "hon" (this-); "chi" "hou" (the qualifier "regional")       *)
(*   any other name ("a", "b", "p", ...) is an ordinary character          *)
(***************************************************************************)
EXTENDS Integers, Sequences, FiniteSets, TLC

VARIABLES
    db,               \* main: recipient names of recipients.db once connected
    pc,               \* position in main / parse_pdf
    run,              \* which invocation of main this is
    first_out,        \* what the previous invocation published
    raw_pages,        \* parse_pdf: raw.split(FF), raw the text extract_text returned
    i,                \* parse_pdf: index of the page-merging loop (0-based)
    pages,            \* parse_pdf: merged pages
    page_idx,         \* parse_pdf: index of the page being scanned (1-based)
    blocks,           \* parse_pdf: join_continuation_lines(page)
    idx,              \* parse_pdf: index of the next block (1-based)
    rows,             \* parse_pdf: records appended so far
    current_ministry,
    current_category,
    prev_bureau_base,
    prev_bureau_full,
    last_prefixes,
    last_count_str,
    log,              \* which branch of the loop body each scanned block took
    unique,           \* main: deduplicated records
    out,              \* main: records written to the CSV (with bureau_alias)
    lookups,          \* main: the names _exists_in_db was called with, in order
    arg,              \* argument of a function called on its own
    ret               \* its result

vars == <<db, pc, run, first_out, raw_pages, i, pages, page_idx, blocks,
          idx, rows, current_ministry, current_category, prev_bureau_base,
          prev_bureau_full, last_prefixes, last_count_str, log, unique, out,
          lookups, arg, ret>>

-----------------------------------------------------------------------------
(* Character classes of the regular expressions *)

\* \s and str.strip(): Unicode white space
WS == {" ", "TAB", "wsp", "NL", "FF"}

HalfDigits == {"0", "1", "2", "3", "4", "5", "6", "7", "8", "9"}

FullDigits == {"F0", "F1", "F2", "F3", "F4", "F5", "F6", "F7", "F8", "F9"}

\* \d on str patterns, and [0-9０-９]
Digits == HalfDigits \cup FullDigits

\* [一二三四五六七八九十]
KanjiChars == {"k1", "k2", "k3", "k4", "k5", "k6", "k7", "k8", "k9", "k10"}

\* [XⅠⅡⅢⅣⅤⅥⅦⅧⅨⅩⅪⅫxivl\d]
HeaderMarkers ==
    {"X", "x", "i", "v", "l",
     "R1", "R2", "R3", "R4", "R5", "R6", "R7", "R8", "R9", "R10", "R11", "R12"}
    \cup Digits

\* [省庁院府]
MinistryEnds == {"shou", "chou", "in", "fu"}

\* [本１２３４５６７８９(（\d]
BareMinistryBadStart == {"hon", "(", "w("} \cup Digits

\* [ＡＢＣＤＥＦＧＨＩａｂｃｄｅｆA-I]
CategoryLetters ==
    {"wA", "wB", "wC", "wD", "wE", "wF", "wG", "wH", "wI",
     "wa", "wb", "wc", "wd", "we", "wf",
     "A", "B", "C", "D", "E", "F", "G", "H", "I"}

\* [局部会機関]
CategoryEnds == {"kyoku", "bu", "kai", "ki", "seki"}

\* ORG_ENDS [局部所署台庁会校区]
ORG_ENDS == {"kyoku", "bu", "jo", "sho", "tai", "chou", "kai", "kou", "ku"}

\* [局部所署館庁校区]
BareBureauEnds == {"kyoku", "bu", "jo", "sho", "yakata", "chou", "kou", "ku"}

\* SECTION_ENDINGS [課室班係官]
SECTION_ENDINGS == {"ka", "shitsu", "han", "kakari", "kan"}

\* {1,30} of the annotation patterns
AnnotMax == 30

-----------------------------------------------------------------------------
(* String primitives *)

MinOf(S) == CHOOSE x \in S : \A y \in S : x <= y

MaxOf(S) == CHOOSE x \in S : \A y \in S : y <= x

\* str.find from a position: the least j >= from with s[j] = c, or 0
FirstIndex(s, c, from) ==
    LET S == {j \in from..Len(s) : s[j] = c}
    IN  IF S = {} THEN 0 ELSE MinOf(S)

\* str.count
Count(s, c) == Cardinality({j \in 1..Len(s) : s[j] = c})

\* c in s
Contains(s, c) == \E j \in 1..Len(s) : s[j] = c

\* str.split(d): pieces between the occurrences of the character d
RECURSIVE Split(_, _)
Split(s, d) ==
    LET j == FirstIndex(s, d, 1)
    IN  IF j = 0 THEN <<s>>
        ELSE <<SubSeq(s, 1, j - 1)>> \o Split(SubSeq(s, j + 1, Len(s)), d)

\* str.strip()
Strip(s) ==
    LET K == {j \in 1..Len(s) : s[j] \notin WS}
    IN  IF K = {} THEN <<>> ELSE SubSeq(s, MinOf(K), MaxOf(K))

\* re.sub(r'\s+', '', s)
RemoveWS(s) == SelectSeq(s, LAMBDA c : c \notin WS)

\* re.sub(open [^close]{1,30} close, '', s): leftmost matches, left to right
RECURSIVE RemoveAnnot(_, _, _)
RemoveAnnot(s, open, close) ==
    IF s = <<>> THEN <<>>
    ELSE LET j == FirstIndex(s, close, 2)
         IN  IF s[1] = open /\ j # 0 /\ j - 2 >= 1 /\ j - 2 <= AnnotMax
             THEN RemoveAnnot(SubSeq(s, j + 1, Len(s)), open, close)
             ELSE <<s[1]>> \o RemoveAnnot(Tail(s), open, close)

\* the trailing run matched by [0-9０-９]+$ ('' when there is none)
TrailingDigits(s) ==
    LET K == {j \in 1..Len(s) : s[j] \notin Digits}
        k == IF K = {} THEN 0 ELSE MaxOf(K)
    IN  SubSeq(s, k + 1, Len(s))

normalize_line(line) ==
    Strip(RemoveAnnot(RemoveAnnot(RemoveWS(line), "w(", "w)"), "(", ")"))

strip_count(s) == Strip(SubSeq(s, 1, Len(s) - Len(TrailingDigits(s))))

-----------------------------------------------------------------------------
(* Range / template expander *)

\* _KANJI_NUM
KANJI_NUM(c) ==
    CASE c = "k1" -> 1 [] c = "k2" -> 2 [] c = "k3" -> 3 [] c = "k4" -> 4
      [] c = "k5" -> 5 [] c = "k6" -> 6 [] c = "k7" -> 7 [] c = "k8" -> 8
      [] c = "k9" -> 9

KanjiDigits == KanjiChars \ {"k10"}

\* _KANJI_NUM.get(t, default): only the one-character keys are in the table
KanjiNumGet(t, default) ==
    IF Len(t) = 1 /\ t[1] \in KanjiDigits THEN KANJI_NUM(t[1]) ELSE default

\* the largest key of _ARABIC_KANJI
MaxOrdinal == 12

\* _ARABIC_KANJI[n], n in 1..12
ARABIC_KANJI(n) ==
    LET digit(m) == CHOOSE c \in KanjiDigits : KANJI_NUM(c) = m
    IN  IF n <= 9 THEN <<digit(n)>>
        ELSE IF n = 10 THEN <<"k10">>
        ELSE <<"k10", digit(n - 10)>>

kanji_to_int(s) ==
    IF Len(s) = 1 /\ s[1] \in KanjiDigits THEN KANJI_NUM(s[1])
    ELSE IF s = <<"k10">> THEN 10
    ELSE IF Len(s) >= 1 /\ s[1] = "k10" THEN 10 + KanjiNumGet(Tail(s), 0)
    ELSE IF Len(s) >= 1 /\ s[Len(s)] = "k10" THEN KanjiNumGet(<<s[1]>>, 1) * 10
    ELSE IF Contains(s, "k10")
         THEN LET j == FirstIndex(s, "k10", 1)
              IN  KanjiNumGet(SubSeq(s, 1, j - 1), 1) * 10
                  + KanjiNumGet(SubSeq(s, j + 1, Len(s)), 0)
    ELSE 0

\* RangePrefixes over range(lo, hi): the interval without its upper end
RECURSIVE RangePrefixesExclusive(_, _)
RangePrefixesExclusive(lo, hi) ==
    IF lo >= hi THEN <<>>
    ELSE (IF lo \in 1..12 THEN << <<"dai">> \o (IF lo <= 9 THEN <<CHOOSE c \in KanjiDigits : KANJI_NUM(c) = lo>>
                                          ELSE IF lo = 10 THEN <<"k10">>
                                          ELSE <<"k10", CHOOSE c \in KanjiDigits : KANJI_NUM(c) = lo - 10>>) >>
          ELSE <<>>)
         \o RangePrefixesExclusive(lo + 1, hi)

\* [f'第{_ARABIC_KANJI[n]}' for n in range(lo, hi + 1) if n in _ARABIC_KANJI]
RECURSIVE RangePrefixes(_, _)
RangePrefixes(lo, hi) ==
    IF lo > hi THEN <<>>
    ELSE (IF lo \in 1..MaxOrdinal THEN << <<"dai">> \o ARABIC_KANJI(lo) >> ELSE <<>>)
         \o RangePrefixes(lo + 1, hi)

expand_item(item) ==
    LET t == Strip(item)
        n == Len(t)
        w == FirstIndex(t, "~", 1)
        \* ^第([一二三四五六七八九十]+)～第([一二三四五六七八九十]+)$
        m == /\ n >= 5
             /\ t[1] = "dai"
             /\ w >= 3
             /\ w + 2 <= n
             /\ t[w + 1] = "dai"
             /\ \A j \in 2..(w - 1) : t[j] \in KanjiChars
             /\ \A j \in (w + 2)..n : t[j] \in KanjiChars
    IN  IF m
        THEN RangePrefixes(kanji_to_int(SubSeq(t, 2, w - 1)),
                           kanji_to_int(SubSeq(t, w + 2, n)))
        ELSE IF t # <<>> THEN <<t>> ELSE <<>>

RECURSIVE ExpandItems(_)
ExpandItems(items) ==
    IF items = <<>> THEN <<>>
    ELSE expand_item(Head(items)) \o ExpandItems(Tail(items))

expand_angle_content(text) == ExpandItems(Split(text, ","))

-----------------------------------------------------------------------------
(* Section list of a bracketed block *)

\* SectionsOf without the test on the section suffix
RECURSIVE SectionsOfAnySuffix(_)
SectionsOfAnySuffix(items) ==
    IF items = <<>> THEN <<>>
    ELSE LET item == Strip(Head(items))
             item_clean == Strip(RemoveAnnot(RemoveWS(item), "w(", "w)"))
             keep == /\ item # <<>>
                     /\ item_clean # <<>>
                     /\ Len(item_clean) >= 2
         IN  (IF keep THEN <<item_clean>> ELSE <<>>)
                 \o SectionsOfAnySuffix(Tail(items))

RECURSIVE SectionsOf(_)
SectionsOf(items) ==
    IF items = <<>> THEN <<>>
    ELSE LET item == Strip(Head(items))
             item_clean == Strip(RemoveAnnot(RemoveWS(item), "w(", "w)"))
             keep == /\ item # <<>>
                     /\ item_clean # <<>>
                     /\ item_clean[Len(item_clean)] \in SECTION_ENDINGS
                     /\ Len(item_clean) >= 2
         IN  (IF keep THEN <<item_clean>> ELSE <<>>) \o SectionsOf(Tail(items))

extract_bureaus_and_sections(bracket_text) == SectionsOf(Split(bracket_text, ","))

-----------------------------------------------------------------------------
(* Block joining *)

\* ^(\d+\s|[（(]\d|[２３４５６７８９１]+\s|＜|【|\d+$)
FORCE_NEW(s) ==
    LET n == Len(s)
        lead(D) == LET K == {j \in 1..n : s[j] \notin D}
                   IN  IF K = {} THEN n ELSE MinOf(K) - 1
        then_space(D) == lead(D) >= 1 /\ lead(D) < n /\ s[lead(D) + 1] \in WS
    IN  \/ then_space(Digits)
        \/ n >= 2 /\ s[1] \in {"w(", "("} /\ s[2] \in Digits
        \/ then_space(FullDigits \ {"F0"})
        \/ n >= 1 /\ s[1] = "<"
        \/ n >= 1 /\ s[1] = "lb"
        \/ n >= 1 /\ lead(Digits) = n

\* IsPageNumber without the limit of three digits
IsPageNumberAnyLength(s) == Len(s) >= 1 /\ \A j \in 1..Len(s) : s[j] \in Digits

\* ^\d{1,3}$
IsPageNumber(s) == Len(s) >= 1 /\ Len(s) <= 3 /\ \A j \in 1..Len(s) : s[j] \in Digits

\* the state of the loop before any line: blocks = [], current = None, open_brackets = 0
JoinInit == [blocks |-> <<>>, current |-> <<>>, has |-> FALSE, open_brackets |-> 0]

\* JoinLine without the exception for a block with an open bracket
JoinLineIgnoringBrackets(acc, raw_line) ==
    LET stripped == Strip(raw_line)
        has_indent == Len(raw_line) >= 1 /\ raw_line[1] \in {" ", "TAB"}
        is_forced_new == FORCE_NEW(stripped)
        diff == Count(stripped, "[") - Count(stripped, "]")
    IN  IF stripped = <<>> THEN acc
        ELSE IF IsPageNumber(stripped) THEN acc
        ELSE IF has_indent \/ ~acc.has \/ is_forced_new
             THEN [blocks |-> IF acc.has THEN Append(acc.blocks, acc.current)
                                         ELSE acc.blocks,
                   current |-> stripped,
                   has |-> TRUE,
                   open_brackets |-> diff]
             ELSE [acc EXCEPT !.current = @ \o stripped,
                              !.open_brackets = IF @ + diff > 0 THEN @ + diff ELSE 0]

\* one iteration of the loop over raw_text.split(NL); has is "current is not None"
JoinLine(acc, raw_line) ==
    LET stripped == Strip(raw_line)
        has_indent == Len(raw_line) >= 1 /\ raw_line[1] \in {" ", "TAB"}
        is_forced_new == FORCE_NEW(stripped)
        diff == Count(stripped, "[") - Count(stripped, "]")
    IN  IF stripped = <<>> THEN acc
        ELSE IF IsPageNumber(stripped) THEN acc
        ELSE IF /\ (has_indent \/ ~acc.has \/ is_forced_new)
                /\ ~(acc.has /\ acc.open_brackets > 0 /\ ~has_indent)
             THEN [blocks |-> IF acc.has THEN Append(acc.blocks, acc.current)
                                         ELSE acc.blocks,
                   current |-> stripped,
                   has |-> TRUE,
                   open_brackets |-> diff]
             ELSE [acc EXCEPT !.current = @ \o stripped,
                              !.open_brackets = IF @ + diff > 0 THEN @ + diff ELSE 0]

RECURSIVE JoinLines(_, _)
JoinLines(acc, lines) ==
    IF lines = <<>> THEN acc ELSE JoinLines(JoinLine(acc, Head(lines)), Tail(lines))

join_continuation_lines(raw_text) ==
    LET acc == JoinLines(JoinInit, Split(raw_text, "NL"))
    IN  IF acc.has /\ acc.current # <<>> THEN Append(acc.blocks, acc.current)
        ELSE acc.blocks

-----------------------------------------------------------------------------
(* Entry classifier: the body of the loop over the blocks of a page *)

\* Row recording the bureau as expanded_from when none is given
RowAlwaysFrom(m, c, b, sec, e) ==
    [ministry |-> m, category |-> c, bureau |-> b, section |-> sec,
     expanded_from |-> IF e = <<>> THEN b ELSE e]

Row(m, c, b, sec, e) ==
    [ministry |-> m, category |-> c, bureau |-> b, section |-> sec,
     expanded_from |-> e]

\* ExpansionRows recording the stripped base, not the literal, as expanded_from
ExpansionRowsFromBase(m, c, prefixes, base, full) ==
    [k \in 1..Len(prefixes) |->
        [ministry |-> m, category |-> c, bureau |-> prefixes[k] \o base,
         section |-> <<>>, expanded_from |-> base]]

\* one record per prefix: bureau = prefix + base
ExpansionRows(m, c, prefixes, base, full) ==
    [k \in 1..Len(prefixes) |-> Row(m, c, prefixes[k] \o base, <<>>, full)]

\* SiblingReuse without the lookahead
SiblingReuseIgnoringLookahead(st, cur_count, next_is_angle) ==
    /\ st.last_prefixes # <<>>
    /\ cur_count # <<>>
    /\ cur_count = st.last_count_str

\* the sibling-expansion test of both bureau rules
SiblingReuse(st, cur_count, next_is_angle) ==
    /\ ~next_is_angle
    /\ st.last_prefixes # <<>>
    /\ cur_count # <<>>
    /\ cur_count = st.last_count_str

\* CountSuffixCheck that leaves last_count_str as it is after a sibling reuse
CountSuffixCheckNoInvalidate(st, name, next_is_angle) ==
    LET count_stripped == strip_count(name)
        cur_count == TrailingDigits(name)
    IN  IF /\ count_stripped # name
           /\ count_stripped # <<>>
           /\ count_stripped[Len(count_stripped)] \in ORG_ENDS
        THEN IF SiblingReuse(st, cur_count, next_is_angle)
             THEN [st EXCEPT !.emitted = ExpansionRows(st.current_ministry,
                                             st.current_category,
                                             st.last_prefixes, count_stripped, name),
                             !.carry = "reuse"]
             ELSE [st EXCEPT !.prev_bureau_base = count_stripped,
                             !.prev_bureau_full = name,
                             !.carry = "stash"]
        ELSE st

\* CountSuffixCheck that stashes the count-stripped form as prev_bureau_full too
CountSuffixCheckStashingBase(st, name, next_is_angle) ==
    LET count_stripped == strip_count(name)
        cur_count == TrailingDigits(name)
    IN  IF /\ count_stripped # name
           /\ count_stripped # <<>>
           /\ count_stripped[Len(count_stripped)] \in ORG_ENDS
        THEN IF SiblingReuse(st, cur_count, next_is_angle)
             THEN [st EXCEPT !.emitted = ExpansionRows(st.current_ministry,
                                             st.current_category,
                                             st.last_prefixes, count_stripped, name),
                             !.last_count_str = <<>>,
                             !.carry = "reuse"]
             ELSE [st EXCEPT !.prev_bureau_base = count_stripped,
                             !.prev_bureau_full = count_stripped,
                             !.carry = "stash"]
        ELSE st

\* CountSuffixCheck in which a name without a count suffix drops current_category
\* when the next block is an angle-bracket line
CountSuffixCheckLookaheadLeaks(st, name, next_is_angle) ==
    LET count_stripped == strip_count(name)
        cur_count == TrailingDigits(name)
    IN  IF /\ count_stripped # name
           /\ count_stripped # <<>>
           /\ count_stripped[Len(count_stripped)] \in ORG_ENDS
        THEN IF SiblingReuse(st, cur_count, next_is_angle)
             THEN [st EXCEPT !.emitted = ExpansionRows(st.current_ministry,
                                             st.current_category,
                                             st.last_prefixes, count_stripped, name),
                             !.last_count_str = <<>>,
                             !.carry = "reuse"]
             ELSE [st EXCEPT !.prev_bureau_base = count_stripped,
                             !.prev_bureau_full = name,
                             !.carry = "stash"]
        ELSE IF next_is_angle THEN [st EXCEPT !.current_category = <<>>] ELSE st

\* the count-suffix check of both bureau rules, on the state in which prev_bureau_*
\* are already cleared: the records it appends (emitted), how it went (carry) and
\* the expansion state it leaves
CountSuffixCheck(st, name, next_is_angle) ==
    LET count_stripped == strip_count(name)
        cur_count == TrailingDigits(name)
    IN  IF /\ count_stripped # name
           /\ count_stripped # <<>>
           /\ count_stripped[Len(count_stripped)] \in ORG_ENDS
        THEN IF SiblingReuse(st, cur_count, next_is_angle)
             THEN [st EXCEPT !.emitted = ExpansionRows(st.current_ministry,
                                             st.current_category,
                                             st.last_prefixes, count_stripped, name),
                             !.last_count_str = <<>>,
                             !.carry = "reuse"]
             ELSE [st EXCEPT !.prev_bureau_base = count_stripped,
                             !.prev_bureau_full = name,
                             !.carry = "stash"]
        ELSE st

\* re.match(r'^＜(.+?)＞', norm): the index of the closing bracket, 0 for no match
AngleEnd(norm) ==
    IF Len(norm) >= 1 /\ norm[1] = "<" THEN FirstIndex(norm, ">", 3) ELSE 0

\* re.match(r'^[XⅠ..Ⅻxivl\d]+(.{2,20}[省庁院府])$', norm): where group 1 starts,
\* 0 for no match
HeaderStart(norm) ==
    LET n == Len(norm)
        K == {k \in 1..n : /\ \A j \in 1..k : norm[j] \in HeaderMarkers
                           /\ n - k >= 3
                           /\ n - k <= 21}
    IN  IF K # {} /\ norm[n] \in MinistryEnds THEN MaxOf(K) + 1 ELSE 0

\* re.match(r'^本[省庁]$', candidate)
IsGenericPhrase(candidate) ==
    Len(candidate) = 2 /\ candidate[1] = "hon" /\ candidate[2] \in {"shou", "chou"}

\* the bare ministry-name test
IsBareMinistry(norm) ==
    /\ Len(norm) >= 3
    /\ Len(norm) <= 16
    /\ norm[Len(norm)] \in MinistryEnds
    /\ ~Contains(norm, "w(")
    /\ ~Contains(norm, ",")
    /\ norm[1] \notin BareMinistryBadStart

\* re.match(r'^[ＡＢ..A-I](.{2,15})$', norm) and the suffix test on group 1
IsCategory(norm) ==
    /\ Len(norm) >= 3
    /\ Len(norm) <= 16
    /\ norm[1] \in CategoryLetters
    /\ norm[Len(norm)] \in CategoryEnds

\* re.match(r'^(.+?)［(.+?)］(.*)$', norm): <<index of ［, index of ］>>, <<0, 0>>
\* for no match
BracketMatch(norm) ==
    LET o == FirstIndex(norm, "[", 2)
        c == IF o = 0 THEN 0 ELSE FirstIndex(norm, "]", o + 2)
    IN  IF o # 0 /\ c # 0 THEN <<o, c>> ELSE <<0, 0>>

\* the bare bureau test
IsBareBureau(norm) ==
    LET cs == strip_count(norm)
        ends_org == \/ norm[Len(norm)] \in BareBureauEnds
                    \/ (cs # norm /\ cs # <<>> /\ cs[Len(cs)] \in ORG_ENDS)
    IN  /\ ends_org
        /\ Len(norm) >= 2
        /\ Len(norm) <= 25
        /\ ~Contains(norm, "w(")
        /\ ~Contains(norm, ",")

\* The loop body for a block whose normalized form norm is not empty.  st holds
\* current_ministry, current_category, prev_bureau_base, prev_bureau_full,
\* last_prefixes, last_count_str; the result adds the records appended (emitted),
\* the rule that took the block (rule) and how the count-suffix check went (carry).
ClassifyBlock(st, norm, next_is_angle) ==
    LET s0 == [st EXCEPT !.emitted = <<>>, !.rule = "none", !.carry = "none"]
        cleared == [s0 EXCEPT !.prev_bureau_base = <<>>, !.prev_bureau_full = <<>>]
        angle_end == AngleEnd(norm)
        header == HeaderStart(norm)
        br == BracketMatch(norm)
    IN  IF angle_end # 0 /\ st.prev_bureau_base # <<>>
        THEN LET prefixes == expand_angle_content(SubSeq(norm, 2, angle_end - 1))
             IN  [cleared EXCEPT
                    !.last_prefixes = prefixes,
                    !.last_count_str = TrailingDigits(st.prev_bureau_full),
                    !.emitted = ExpansionRows(st.current_ministry, st.current_category,
                                    prefixes, st.prev_bureau_base, st.prev_bureau_full),
                    !.rule = "angle"]
        ELSE IF header # 0
        THEN IF ~IsGenericPhrase(SubSeq(norm, header, Len(norm)))
             THEN [cleared EXCEPT !.current_ministry = SubSeq(norm, header, Len(norm)),
                                  !.current_category = <<>>,
                                  !.rule = "header"]
             ELSE [cleared EXCEPT !.rule = "header"]
        ELSE IF IsBareMinistry(norm)
        THEN [cleared EXCEPT !.current_ministry = norm,
                             !.current_category = <<>>,
                             !.rule = "ministry"]
        ELSE IF IsCategory(norm)
        THEN [cleared EXCEPT !.current_category = Tail(norm), !.rule = "category"]
        ELSE IF br[1] # 0
        THEN LET bureau_raw == Strip(SubSeq(norm, 1, br[1] - 1))
                 sections == extract_bureaus_and_sections(
                                 SubSeq(norm, br[1] + 1, br[2] - 1))
                 chk == CountSuffixCheck(cleared, bureau_raw, next_is_angle)
                 alone == IF bureau_raw # <<>> /\ Len(bureau_raw) >= 2
                             /\ Len(bureau_raw) <= 35
                          THEN <<Row(st.current_ministry, st.current_category,
                                     bureau_raw, <<>>, <<>>)>>
                          ELSE <<>>
                 secs == [k \in 1..Len(sections) |->
                             Row(st.current_ministry, st.current_category,
                                 bureau_raw, sections[k], <<>>)]
             IN  [chk EXCEPT !.emitted = @ \o alone \o secs, !.rule = "bracket"]
        ELSE IF IsBareBureau(norm)
        THEN LET chk == CountSuffixCheck(cleared, norm, next_is_angle)
             IN  [chk EXCEPT !.emitted = @ \o <<Row(st.current_ministry,
                                                    st.current_category,
                                                    norm, <<>>, <<>>)>>,
                             !.rule = "bureau"]
        ELSE cleared

\* the first non-empty normalized form among blocks bs[from..], '' when none
RECURSIVE FirstNorm(_, _)
FirstNorm(bs, from) ==
    IF from > Len(bs) THEN <<>>
    ELSE IF normalize_line(bs[from]) # <<>> THEN normalize_line(bs[from])
    ELSE FirstNorm(bs, from + 1)

\* the lookahead: next_is_angle for block k of page p (1-based), bs the page's blocks
NextIsAngle(pgs, p, bs, k) ==
    LET here == FirstNorm(bs, k + 1)
        next_norm == IF here = <<>> /\ p + 1 <= Len(pgs)
                     THEN FirstNorm(join_continuation_lines(pgs[p + 1]), 1)
                     ELSE here
    IN  Len(next_norm) >= 1 /\ next_norm[1] = "<"

-----------------------------------------------------------------------------
(* Page merging, deduplication, alias resolution *)

\* page_text.count('＜') - page_text.count('＞')
AngleBalance(text) == Count(text, "<") - Count(text, ">")

\* Absorb as an if: at most one following page is absorbed
AbsorbOnce(rp, page_text, open_angles, k) ==
    IF open_angles > 0 /\ k + 1 < Len(rp)
    THEN [page_text |-> page_text \o <<"NL">> \o rp[k + 2], i |-> k + 1]
    ELSE [page_text |-> page_text, i |-> k]

\* the inner while loop of the page merge; k is the 0-based index of the raw page
\* absorbed last
RECURSIVE Absorb(_, _, _, _)
Absorb(rp, page_text, open_angles, k) ==
    IF open_angles > 0 /\ k + 1 < Len(rp)
    THEN Absorb(rp, page_text \o <<"NL">> \o rp[k + 2],
                open_angles + AngleBalance(rp[k + 2]), k + 1)
    ELSE [page_text |-> page_text, i |-> k]

KeyOf(r) == <<r.ministry, r.category, r.bureau, r.section>>

\* Keeps without the test on the keys seen
KeepsAnyKey(seen, r) == r.ministry # <<>>

\* Keeps without the test on the ministry
KeepsAnyMinistry(seen, r) == KeyOf(r) \notin seen

\* whether the deduplication loop keeps record r, given the keys seen so far
Keeps(seen, r) == KeyOf(r) \notin seen /\ r.ministry # <<>>

\* the deduplication loop of main
RECURSIVE UniqueRows(_, _)
UniqueRows(rs, seen) ==
    IF rs = <<>> THEN <<>>
    ELSE IF Keeps(seen, Head(rs))
         THEN <<Head(rs)>> \o UniqueRows(Tail(rs), seen \cup {KeyOf(Head(rs))})
         ELSE UniqueRows(Tail(rs), seen)

\* '地方' in s
HasChihou(s) == \E j \in 1..(Len(s) - 1) : s[j] = "chi" /\ s[j + 1] = "hou"

\* s.replace('地方', '')
RECURSIVE RemoveChihou(_)
RemoveChihou(s) ==
    IF Len(s) < 2 THEN s
    ELSE IF s[1] = "chi" /\ s[2] = "hou" THEN RemoveChihou(SubSeq(s, 3, Len(s)))
    ELSE <<s[1]>> \o RemoveChihou(Tail(s))

\* AliasOf without the test that the bureau itself is not in the database
AliasOfUnchecked(r, d) ==
    IF r.expanded_from # <<>> /\ HasChihou(r.bureau) /\ RemoveChihou(r.bureau) \in d
    THEN RemoveChihou(r.bureau)
    ELSE <<>>

\* the alias main gives record r when recipients.db holds the names d
AliasOf(r, d) ==
    LET candidate == RemoveChihou(r.bureau)
    IN  IF /\ r.expanded_from # <<>>
           /\ HasChihou(r.bureau)
           /\ candidate # r.bureau
           /\ candidate \in d
           /\ r.bureau \notin d
        THEN candidate
        ELSE <<>>

\* the calls of _exists_in_db main makes for record r: the candidate, then the
\* bureau itself when the candidate is there
LookupsFor(r, d) ==
    LET candidate == RemoveChihou(r.bureau)
    IN  IF r.expanded_from # <<>> /\ HasChihou(r.bureau) /\ candidate # r.bureau
        THEN IF candidate \in d THEN <<candidate, r.bureau>> ELSE <<candidate>>
        ELSE <<>>

\* the calls of _exists_in_db of the whole alias loop
RECURSIVE AllLookups(_, _)
AllLookups(rs, d) ==
    IF rs = <<>> THEN <<>> ELSE LookupsFor(Head(rs), d) \o AllLookups(Tail(rs), d)

WithAlias(r, d) ==
    [ministry |-> r.ministry, category |-> r.category, bureau |-> r.bureau,
     bureau_alias |-> AliasOf(r, d), section |-> r.section,
     expanded_from |-> r.expanded_from]

-----------------------------------------------------------------------------
(* Inputs *)

\* the longest input, in lines and page breaks
MaxTokens == 4

\* the longest delimiter-separated list of an input
MaxItems == 2

\* the longest input of the classifier and of block joining, in entries of their
\* vocabularies
MaxLines == 3

SeqsUpTo(V, n) == UNION {[1..k -> V] : k \in 0..n}

RECURSIVE Flatten(_)
Flatten(ts) == IF ts = <<>> THEN <<>> ELSE Head(ts) \o Flatten(Tail(ts))

\* items joined by the list delimiter
RECURSIVE JoinItems(_)
JoinItems(items) ==
    IF items = <<>> THEN <<>>
    ELSE IF Len(items) = 1 THEN items[1]
    ELSE items[1] \o <<",">> \o JoinItems(Tail(items))

PageBreak == <<"FF">>

HeaderLine == <<" ", "R1", " ", "a", " ", "b", " ", "shou", "NL">>

CategoryLine == <<" ", "wA", " ", "a", "b", "bu", "NL">>

CountedBureauLine == <<" ", "c", " ", "kyoku", "F6", "w(", "2", "w)", "NL">>

AngleLine ==
    <<" ", "<", "p", "chi", "hou", ",", "dai", "k1", "~", "dai", "k2", ">", "5", "4", "NL">>

BracketLine == <<" ", "d", "bu", "[", "e", ",", "f", " ", "ka", "]", "NL">>

AngleOpenLine == <<" ", "<", "p", ",", "NL">>

AngleCloseLine == <<"q", ">", "NL">>

IndentedCloseLine == <<" ", "q", ">", "NL">>

PageNumberLine == <<"1", "2", "NL">>

ScanVocab == {HeaderLine, CategoryLine, CountedBureauLine, AngleLine, BracketLine}

PageVocab == {CountedBureauLine, AngleOpenLine, AngleCloseLine, IndentedCloseLine,
              PageNumberLine, PageBreak}

InputsOver(V) == {Flatten(ts) : ts \in SeqsUpTo(V, MaxTokens)}

\* names recipients.db may hold
CanonNames == {<<"p", "chi", "hou", "c", "kyoku">>, <<"p", "c", "kyoku">>}

-----------------------------------------------------------------------------
(* The program: main() calling parse_pdf() *)

\* the local state of parse_pdf and main before the first statement
Fresh ==
    /\ i = 0
    /\ pages = <<>>
    /\ page_idx = 0
    /\ blocks = <<>>
    /\ idx = 1
    /\ rows = <<>>
    /\ current_ministry = <<>>
    /\ current_category = <<>>
    /\ prev_bureau_base = <<>>
    /\ prev_bureau_full = <<>>
    /\ last_prefixes = <<>>
    /\ last_count_str = <<>>
    /\ log = <<>>
    /\ unique = <<>>
    /\ out = <<>>
    /\ lookups = <<>>

InitOver(I) ==
    /\ raw_pages \in {Split(r, "FF") : r \in I}
    /\ db = {}
    /\ pc = "merge"
    /\ run = 1
    /\ first_out = <<>>
    /\ arg = <<>>
    /\ ret = <<>>
    /\ Fresh

\* one iteration of the outer page-merging loop
MergePage ==
    /\ pc = "merge"
    /\ i < Len(raw_pages)
    /\ LET m == Absorb(raw_pages, raw_pages[i + 1], AngleBalance(raw_pages[i + 1]), i)
       IN  /\ pages' = Append(pages, m.page_text)
           /\ i' = m.i + 1
           /\ pc' = IF m.i + 1 < Len(raw_pages) THEN "merge" ELSE "scan"
    /\ UNCHANGED <<db, run, first_out, lookups, raw_pages, page_idx, blocks, idx, rows,
                   current_ministry, current_category, prev_bureau_base,
                   prev_bureau_full, last_prefixes, last_count_str, log, unique,
                   out, arg, ret>>

\* the outer scan loop takes the next page
NextPage ==
    /\ pc = "scan"
    /\ idx > Len(blocks)
    /\ page_idx < Len(pages)
    /\ page_idx' = page_idx + 1
    /\ blocks' = join_continuation_lines(pages[page_idx + 1])
    /\ idx' = 1
    /\ UNCHANGED <<db, pc, run, first_out, lookups, raw_pages, i, pages, rows,
                   current_ministry, current_category, prev_bureau_base,
                   prev_bureau_full, last_prefixes, last_count_str, log, unique,
                   out, arg, ret>>

\* the classifier state as a record
Ctx ==
    [current_ministry |-> current_ministry, current_category |-> current_category,
     prev_bureau_base |-> prev_bureau_base, prev_bureau_full |-> prev_bureau_full,
     last_prefixes |-> last_prefixes, last_count_str |-> last_count_str,
     emitted |-> <<>>, rule |-> "none", carry |-> "none"]

\* Outcome with the expansion cache dropped by a block no rule takes
OutcomeDroppingCache ==
    LET o == ClassifyBlock(Ctx, normalize_line(blocks[idx]),
                           NextIsAngle(pages, page_idx, blocks, idx))
    IN  IF o.rule = "none"
        THEN [o EXCEPT !.last_prefixes = <<>>, !.last_count_str = <<>>]
        ELSE o

\* Outcome with current_category kept by a block that sets current_ministry
OutcomeKeepingCategory ==
    LET o == ClassifyBlock(Ctx, normalize_line(blocks[idx]),
                           NextIsAngle(pages, page_idx, blocks, idx))
    IN  IF o.rule \in {"header", "ministry"}
        THEN [o EXCEPT !.current_category = current_category]
        ELSE o

\* what the loop body does with the block at idx
Outcome ==
    ClassifyBlock(Ctx, normalize_line(blocks[idx]),
                  NextIsAngle(pages, page_idx, blocks, idx))

\* one iteration of the inner scan loop
ProcessBlock ==
    /\ pc = "scan"
    /\ idx <= Len(blocks)
    /\ idx' = idx + 1
    /\ IF normalize_line(blocks[idx]) = <<>>
       THEN UNCHANGED <<rows, current_ministry, current_category, prev_bureau_base,
                        prev_bureau_full, last_prefixes, last_count_str, log>>
       ELSE LET o == Outcome
            IN  /\ rows' = rows \o o.emitted
                /\ current_ministry' = o.current_ministry
                /\ current_category' = o.current_category
                /\ prev_bureau_base' = o.prev_bureau_base
                /\ prev_bureau_full' = o.prev_bureau_full
                /\ last_prefixes' = o.last_prefixes
                /\ last_count_str' = o.last_count_str
                /\ log' = Append(log, [rule |-> o.rule, carry |-> o.carry])
    /\ UNCHANGED <<db, pc, run, first_out, lookups, raw_pages, i, pages, page_idx, blocks,
                   unique, out, arg, ret>>

\* parse_pdf returns and main removes the duplicates
Dedup ==
    /\ pc = "scan"
    /\ idx > Len(blocks)
    /\ page_idx = Len(pages)
    /\ unique' = UniqueRows(rows, {})
    /\ pc' = "alias"
    /\ UNCHANGED <<db, run, first_out, lookups, raw_pages, i, pages, page_idx, blocks, idx,
                   rows, current_ministry, current_category, prev_bureau_base,
                   prev_bureau_full, last_prefixes, last_count_str, log, out, arg,
                   ret>>

\* main connects to recipients.db, fills bureau_alias and writes the CSV; a second
\* invocation finds the database as the first one did
AliasPass ==
    /\ pc = "alias"
    /\ \E d \in (IF run = 1 THEN SUBSET CanonNames ELSE {db}) :
          /\ db' = d
          /\ out' = [k \in 1..Len(unique) |-> WithAlias(unique[k], d)]
          /\ lookups' = AllLookups(unique, d)
    /\ pc' = "done"
    /\ UNCHANGED <<run, first_out, raw_pages, i, pages, page_idx, blocks, idx, rows,
                   current_ministry, current_category, prev_bureau_base,
                   prev_bureau_full, last_prefixes, last_count_str, log, unique,
                   arg, ret>>

Next == MergePage \/ NextPage \/ ProcessBlock \/ Dedup \/ AliasPass

Init == InitOver(InputsOver(ScanVocab))

Spec == Init /\ [][Next]_vars

InitPages == InitOver(InputsOver(PageVocab))

SpecPages == InitPages /\ [][Next]_vars

\* the locals of main and parse_pdf at the entry of the next invocation, with
\* current_ministry, current_category and the expansion state kept from the last one
StartOverKeepingState ==
    /\ i' = 0
    /\ pages' = <<>>
    /\ page_idx' = 0
    /\ blocks' = <<>>
    /\ idx' = 1
    /\ rows' = <<>>
    /\ log' = <<>>
    /\ unique' = <<>>
    /\ out' = <<>>
    /\ lookups' = <<>>
    /\ UNCHANGED <<current_ministry, current_category, prev_bureau_base,
                   prev_bureau_full, last_prefixes, last_count_str>>

\* the locals of main and parse_pdf at the entry of the next invocation
StartOver ==
    /\ i' = 0
    /\ pages' = <<>>
    /\ page_idx' = 0
    /\ blocks' = <<>>
    /\ idx' = 1
    /\ rows' = <<>>
    /\ current_ministry' = <<>>
    /\ current_category' = <<>>
    /\ prev_bureau_base' = <<>>
    /\ prev_bureau_full' = <<>>
    /\ last_prefixes' = <<>>
    /\ last_count_str' = <<>>
    /\ log' = <<>>
    /\ unique' = <<>>
    /\ out' = <<>>
    /\ lookups' = <<>>

\* main is invoked a second time on the same text and the same database
Rerun ==
    /\ pc = "done"
    /\ run = 1
    /\ run' = 2
    /\ first_out' = out
    /\ pc' = "merge"
    /\ StartOver
    /\ UNCHANGED <<db, raw_pages, arg, ret>>

\* AliasFails with the CSV written all the same, every alias left empty
AliasFailsPublishing ==
    /\ pc = "alias"
    /\ run = 1
    /\ \E d \in SUBSET CanonNames :
          \E k \in 1..Len(AllLookups(unique, d)) :
              /\ db' = d
              /\ lookups' = SubSeq(AllLookups(unique, d), 1, k)
    /\ out' = [k \in 1..Len(unique) |-> WithAlias(unique[k], {})]
    /\ pc' = "error"
    /\ UNCHANGED <<run, first_out, raw_pages, i, pages, page_idx, blocks, idx, rows,
                   current_ministry, current_category, prev_bureau_base,
                   prev_bureau_full, last_prefixes, last_count_str, log, unique,
                   arg, ret>>

\* a call of _exists_in_db raises (recipients.db has no table recipients, or the
\* file cannot be read): the exception leaves main before the CSV is written
AliasFails ==
    /\ pc = "alias"
    /\ run = 1
    /\ \E d \in SUBSET CanonNames :
          \E k \in 1..Len(AllLookups(unique, d)) :
              /\ db' = d
              /\ lookups' = SubSeq(AllLookups(unique, d), 1, k)
    /\ pc' = "error"
    /\ UNCHANGED <<run, first_out, raw_pages, i, pages, page_idx, blocks, idx, rows,
                   current_ministry, current_category, prev_bureau_base,
                   prev_bureau_full, last_prefixes, last_count_str, log, unique,
                   out, arg, ret>>

NextLookup == Next \/ AliasFails

SpecLookup == Init /\ [][NextLookup]_vars

NextTwice == Next \/ Rerun

SpecTwice == Init /\ [][NextTwice]_vars

-----------------------------------------------------------------------------
(* expand_angle_content called on its own *)

\* kanji numerals an input writes in a range item; the last one is no numeral
NumeralVocab ==
    {<<"k1">>, <<"k3">>, <<"k10", "k2">>, <<"k10", "k3">>, <<"k2", "k10">>,
     <<"k1", "k1">>}

RangeItems ==
    {<<"dai">> \o a \o <<"~", "dai">> \o b : a \in NumeralVocab, b \in NumeralVocab}

\* empty, a literal name, an ordinal alone, two malformed ranges
PlainItems ==
    {<<>>, <<"p">>, <<"dai", "k1">>, <<"dai", "k1", "~", "k3">>, <<"dai", "k1", "~">>}

\* the content of an angle-bracket pair of a normalized block: no white space
ExpandInputs == {JoinItems(items) : items \in SeqsUpTo(RangeItems \cup PlainItems, MaxItems)}

InitExpand ==
    /\ arg \in ExpandInputs
    /\ ret = <<>>
    /\ pc = "call"
    /\ raw_pages = <<>>
    /\ db = {}
    /\ run = 1
    /\ first_out = <<>>
    /\ Fresh

CallExpand ==
    /\ pc = "call"
    /\ ret' = expand_angle_content(arg)
    /\ pc' = "returned"
    /\ UNCHANGED <<db, run, first_out, lookups, raw_pages, i, pages, page_idx, blocks, idx,
                   rows, current_ministry, current_category, prev_bureau_base,
                   prev_bureau_full, last_prefixes, last_count_str, log, unique,
                   out, arg>>

NextExpand == CallExpand

SpecExpand == InitExpand /\ [][NextExpand]_vars

\* The program on one bracketed line, alone or after a counted bureau with its
\* angle-bracket expansion

\* a name of n ordinary characters
LongName(n) == [k \in 1..n |-> "a"]

BracketPrefixes == {<<>>, CountedBureauLine \o AngleLine}

BracketBureaus ==
    {<<"d">>, <<"d", "bu">>, <<"d", "kyoku", "F6">>, LongName(35), LongName(36)}

ItemVocab ==
    {<<"f", "ka">>, <<"kan", "e", "p">>, <<"e", "f", "kan">>, <<"ka">>, <<>>,
     <<"f", " ", "w(", "a", ",", "b", "w)", "han">>}

BracketTrailing == {<<>>, <<"x">>, <<"x", "shou">>}

BracketInputs ==
    {pre \o <<" ">> \o b \o <<"[">> \o JoinItems(items) \o <<"]">> \o t \o <<"NL">> :
        pre \in BracketPrefixes, b \in BracketBureaus,
        items \in SeqsUpTo(ItemVocab, MaxItems), t \in BracketTrailing}

InitBracket == InitOver(BracketInputs)

SpecBracket == InitBracket /\ [][Next]_vars

\* The program on lines of every kind the bureau rules and the angle rule tell apart

\* a ministry header and a category marker
ContextLines == HeaderLine \o CategoryLine

\* a counted bureau and its angle-bracket line
ExpansionLines == CountedBureauLine \o AngleLine

OtherCountLine == <<" ", "e", " ", "kyoku", "F7", "NL">>

PlainBureauLine == <<" ", "e", " ", "kyoku", "NL">>

CountedBracketLine == <<" ", "d", "kyoku", "F6", "[", "f", "ka", "]", "NL">>

JunkLine == <<" ", "p", " ", "q", "NL">>

\* an angle-bracket pair followed by a counted bureau name
AngleTailLine == <<" ", "<", "a", ">", "b", "kyoku", "F6", "NL">>

ClassifyVocab ==
    {ContextLines, ExpansionLines, AngleLine, CountedBureauLine, OtherCountLine,
     PlainBureauLine, CountedBracketLine, JunkLine, AngleTailLine}

InitClassify == InitOver({Flatten(ts) : ts \in SeqsUpTo(ClassifyVocab, MaxLines)})

SpecClassify == InitClassify /\ [][NextLookup]_vars

\* The program on header, category and bureau lines

\* ' ２c d庁'
DigitHeaderLine == <<" ", "F2", "c", " ", "d", "chou", "NL">>

\* ' Ⅰ本省'
GenericRomanLine == <<" ", "R1", "hon", "shou", "NL">>

\* ' １本省'
GenericDigitLine == <<" ", "F1", "hon", "shou", "NL">>

\* ' ⅠⅡ本省'
TwoMarkerLine == <<" ", "R1", "R2", "hon", "shou", "NL">>

\* ' 一ab省'
KanjiHeaderLine == <<" ", "k1", "a", "b", "shou", "NL">>

\* ' Ｂcd局'
OtherCategoryLine == <<" ", "wB", "c", "d", "kyoku", "NL">>

HeaderVocab ==
    {HeaderLine, DigitHeaderLine, GenericRomanLine, GenericDigitLine, TwoMarkerLine,
     KanjiHeaderLine, CategoryLine, OtherCategoryLine, CountedBureauLine,
     PlainBureauLine}

InitHeader == InitOver({Flatten(ts) : ts \in SeqsUpTo(HeaderVocab, MaxLines)})

SpecHeader == InitHeader /\ [][Next]_vars

\* join_continuation_lines called on its own, one line of the text at a time

JoinVocab ==
    {<<" ", "a", "[", "b">>, <<"h", "[">>, <<"c", "]">>, <<" ", "c", "]">>,
     <<" ", "d">>, <<"<", "e">>, <<"1", "2">>, <<"1", "2", "1", "2">>, <<" ">>}

\* the lines joined by NL
RECURSIVE JoinText(_)
JoinText(lines) ==
    IF lines = <<>> THEN <<>>
    ELSE IF Len(lines) = 1 THEN lines[1]
    ELSE lines[1] \o <<"NL">> \o JoinText(Tail(lines))

InitJoin ==
    /\ arg \in {JoinText(ls) : ls \in SeqsUpTo(JoinVocab, MaxLines)}
    /\ ret = [acc |-> JoinInit, line |-> 0]
    /\ pc = "join"
    /\ raw_pages = <<>>
    /\ db = {}
    /\ run = 1
    /\ first_out = <<>>
    /\ Fresh

\* one iteration of the loop of join_continuation_lines; ret holds its locals and
\* the number of lines read
JoinStep ==
    /\ pc = "join"
    /\ ret.line < Len(Split(arg, "NL"))
    /\ ret' = [acc |-> JoinLine(ret.acc, Split(arg, "NL")[ret.line + 1]),
               line |-> ret.line + 1]
    /\ UNCHANGED <<db, pc, run, first_out, lookups, raw_pages, i, pages, page_idx,
                   blocks, idx, rows, current_ministry, current_category,
                   prev_bureau_base, prev_bureau_full, last_prefixes, last_count_str,
                   log, unique, out, arg>>

\* the loop is over: the current block is closed and the blocks are returned
JoinReturn ==
    /\ pc = "join"
    /\ ret.line = Len(Split(arg, "NL"))
    /\ blocks' = IF ret.acc.has /\ ret.acc.current # <<>>
                 THEN Append(ret.acc.blocks, ret.acc.current)
                 ELSE ret.acc.blocks
    /\ pc' = "joined"
    /\ UNCHANGED <<db, run, first_out, lookups, raw_pages, i, pages, page_idx, idx,
                   rows, current_ministry, current_category, prev_bureau_base,
                   prev_bureau_full, last_prefixes, last_count_str, log, unique,
                   out, arg, ret>>

NextJoin == JoinStep \/ JoinReturn

SpecJoin == InitJoin /\ [][NextJoin]_vars

-----------------------------------------------------------------------------
(* Properties *)

\* C1: in the published output no two records have the same
\* (ministry, category, bureau, section) key.
C1_UniqueKeys ==
    pc = "done" =>
        \A a, b \in 1..Len(out) :
            a # b => <<out[a].ministry, out[a].category, out[a].bureau, out[a].section>>
                     # <<out[b].ministry, out[b].category, out[b].bureau, out[b].section>>

\* the scan appended the same key twice under a ministry and the output is published
C1_Witness ==
    /\ pc = "done"
    /\ out # <<>>
    /\ \E a, b \in 1..Len(rows) :
          a < b /\ KeyOf(rows[a]) = KeyOf(rows[b]) /\ rows[a].ministry # <<>>

\* C2: no published record has an empty ministry: what the classifier appended
\* before the first ministry header is not in the output, whichever rule appended it.
C2_NoEmptyMinistry ==
    pc = "done" => \A k \in 1..Len(out) : out[k].ministry # <<>>

\* before any header a bureau line and a template expansion appended records, a
\* later header gave records a ministry, and the output is published
C2_Witness ==
    /\ pc = "done"
    /\ out # <<>>
    /\ \E a, b \in 1..Len(rows) :
          /\ rows[a].ministry = <<>> /\ rows[a].expanded_from = <<>>
          /\ rows[b].ministry = <<>> /\ rows[b].expanded_from # <<>>

\* C3: a second run of the whole engine on the same pages with the same database
\* publishes the same records in the same order as the first.
C3_SameOutput == (run = 2 /\ pc = "done") => out = first_out

\* the second run has published records, one of them from a template expansion
C3_Witness ==
    /\ run = 2
    /\ pc = "done"
    /\ \E k \in 1..Len(out) : out[k].expanded_from # <<>>
    /\ \E k \in 1..Len(out) : out[k].expanded_from = <<>>

\* the positions of bureau b at which the qualifier "regional" starts
QualifierAt(b) == {j \in 1..(Len(b) - 1) : b[j] = "chi" /\ b[j + 1] = "hou"}

\* b with every occurrence of the qualifier removed
Unqualified(b) ==
    LET f[j \in 0..Len(b)] ==
            IF j = 0 THEN <<>>
            ELSE IF j \in QualifierAt(b) \/ (j - 1) \in QualifierAt(b) THEN f[j - 1]
            ELSE Append(f[j - 1], b[j])
    IN  f[Len(b)]

\* C4: a published record has a bureau_alias only if it comes from an expansion,
\* its bureau contains the qualifier, the bureau without the qualifier is in the
\* canonical set and the bureau itself is not; then the alias is the bureau without
\* the qualifier; when both forms or neither form is in the set the alias is empty.
C4_AliasConservative ==
    pc = "done" =>
        \A k \in 1..Len(out) :
            LET r == out[k]
                all_four == /\ r.expanded_from # <<>>
                            /\ QualifierAt(r.bureau) # {}
                            /\ Unqualified(r.bureau) \in db
                            /\ r.bureau \notin db
            IN  /\ r.bureau_alias # <<>> => all_four
                /\ all_four => r.bureau_alias = Unqualified(r.bureau)
                /\ ((Unqualified(r.bureau) \in db) <=> (r.bureau \in db))
                       => r.bureau_alias = <<>>

\* a published record carries an alias
C4_Witness ==
    /\ pc = "done"
    /\ \E k \in 1..Len(out) : out[k].bureau_alias # <<>> /\ out[k].bureau \notin db

\* the scan is at a block that starts with an angle-bracket pair while a bureau
\* base is pending
AtAngleBlock ==
    /\ pc = "scan"
    /\ idx <= Len(blocks)
    /\ AngleEnd(normalize_line(blocks[idx])) # 0
    /\ prev_bureau_base # <<>>

\* what the expander returns for the content of the pair at the current block
PairPrefixes ==
    LET norm == normalize_line(blocks[idx])
    IN  expand_angle_content(SubSeq(norm, 2, AngleEnd(norm) - 1))

\* d is the trailing digit run of s
IsTrailingDigitRun(d, s) ==
    /\ Len(d) <= Len(s)
    /\ SubSeq(s, Len(s) - Len(d) + 1, Len(s)) = d
    /\ \A j \in 1..Len(d) : d[j] \in Digits
    /\ Len(d) < Len(s) => s[Len(s) - Len(d)] \notin Digits

\* C5: processing a block that starts with an angle-bracket pair while
\* prev_bureau_base is non-empty appends exactly one record per prefix the expander
\* returns, in order, with bureau = prefix + prev_bureau_base, empty section,
\* expanded_from = prev_bureau_full and the current ministry and category; it clears
\* prev_bureau_base and prev_bureau_full, sets last_prefixes to the prefixes and
\* last_count_str to the trailing digit run of the former prev_bureau_full, and
\* leaves current_ministry and current_category as they were.
C5_AngleExpansion ==
    [][(AtAngleBlock /\ idx' = idx + 1) =>
          /\ Len(rows') = Len(rows) + Len(PairPrefixes)
          /\ SubSeq(rows', 1, Len(rows)) = rows
          /\ \A k \in 1..Len(PairPrefixes) :
                rows'[Len(rows) + k] =
                    [ministry |-> current_ministry, category |-> current_category,
                     bureau |-> PairPrefixes[k] \o prev_bureau_base,
                     section |-> <<>>, expanded_from |-> prev_bureau_full]
          /\ prev_bureau_base' = <<>>
          /\ prev_bureau_full' = <<>>
          /\ last_prefixes' = PairPrefixes
          /\ IsTrailingDigitRun(last_count_str', prev_bureau_full)
          /\ current_ministry' = current_ministry
          /\ current_category' = current_category]_vars

\* an expansion of a literal prefix and a range has just been appended under a
\* ministry
C5_Witness ==
    /\ pc = "scan"
    /\ log # <<>>
    /\ log[Len(log)].rule = "angle"
    /\ Len(last_prefixes) = 3
    /\ last_count_str # <<>>
    /\ current_ministry # <<>>
    /\ Len(rows) >= 3
    /\ rows[Len(rows)].expanded_from # <<>>

\* the kanji numeral of n, 1 <= n <= 99
KanjiOrdinal(n) ==
    LET d(m) == <<"k1", "k2", "k3", "k4", "k5", "k6", "k7", "k8", "k9">>[m]
        tens == n \div 10
        ones == n % 10
    IN  (IF tens = 0 THEN <<>> ELSE IF tens = 1 THEN <<"k10">> ELSE <<d(tens), "k10">>)
        \o (IF ones = 0 THEN <<>> ELSE <<d(ones)>>)

IsOrdinal(t) == \E n \in 1..99 : KanjiOrdinal(n) = t

OrdinalValue(t) == CHOOSE n \in 1..99 : KanjiOrdinal(n) = t

\* item has the shape of a range: the ordinal prefix and a run of numeral characters
\* on both sides of the range sign
IsRangeShape(item) ==
    LET parts == Split(item, "~")
        side(t) == /\ Len(t) >= 2
                   /\ t[1] = "dai"
                   /\ \A j \in 2..Len(t) : t[j] \in KanjiChars
    IN  Len(parts) = 2 /\ side(parts[1]) /\ side(parts[2])

RangeFrom(item) == Tail(Split(item, "~")[1])

RangeTo(item) == Tail(Split(item, "~")[2])

\* what C6 says one item contributes
Contribution(item) ==
    IF IsRangeShape(item)
    THEN LET a == OrdinalValue(RangeFrom(item))
             b == IF OrdinalValue(RangeTo(item)) > 12 THEN 12
                  ELSE OrdinalValue(RangeTo(item))
         IN  [k \in 1..(b - a + 1) |-> <<"dai">> \o KanjiOrdinal(a + k - 1)]
    ELSE IF item # <<>> THEN <<item>> ELSE <<>>

RECURSIVE Contributions(_)
Contributions(items) ==
    IF items = <<>> THEN <<>>
    ELSE Contribution(Head(items)) \o Contributions(Tail(items))

\* every range-shaped item of text is written with kanji ordinals
RangesAreOrdinals(text) ==
    \A k \in 1..Len(Split(text, ",")) :
        LET item == Split(text, ",")[k]
        IN  IsRangeShape(item) => IsOrdinal(RangeFrom(item)) /\ IsOrdinal(RangeTo(item))

ReusesSeparated ==
    \A a, b \in 1..Len(log) :
        (a < b /\ log[a].carry = "reuse" /\ log[b].carry = "reuse")
            => \E k \in (a + 1)..(b - 1) : log[k].rule = "angle"

\* the cached prefixes were reused and no angle-bracket expansion came after
ReusedSinceExpansion ==
    \E a \in 1..Len(log) :
        log[a].carry = "reuse" /\ \A k \in (a + 1)..Len(log) : log[k].rule # "angle"

\* the name the bureau rules read from a normalized block: the text before the
\* first bracket pair, or the whole block
BureauNameOf(norm) ==
    IF BracketMatch(norm)[1] # 0 THEN SubSeq(norm, 1, BracketMatch(norm)[1] - 1)
    ELSE norm

\* name ends in a digit suffix and, without it, in an organizational suffix
IsCountedName(name) ==
    /\ TrailingDigits(name) # <<>>
    /\ Len(TrailingDigits(name)) < Len(name)
    /\ name[Len(name) - Len(TrailingDigits(name))] \in ORG_ENDS

\* C7: sibling carry-over happens at most once per template expansion: between two
\* blocks that reuse last_prefixes there is an angle-bracket expansion block, and
\* after a reuse a further bureau line with a digit suffix does not reuse
\* last_prefixes but stashes its own prev_bureau_base / prev_bureau_full.
C7_CarryOnce ==
    /\ []ReusesSeparated
    /\ [][(/\ pc = "scan"
           /\ idx <= Len(blocks)
           /\ Len(log') = Len(log) + 1
           /\ log'[Len(log')].rule \in {"bracket", "bureau"}
           /\ IsCountedName(BureauNameOf(normalize_line(blocks[idx])))
           /\ ReusedSinceExpansion)
          => /\ \A k \in (Len(rows) + 1)..Len(rows') : rows'[k].expanded_from = <<>>
             /\ last_prefixes' = last_prefixes
             /\ prev_bureau_full' = BureauNameOf(normalize_line(blocks[idx]))
             /\ prev_bureau_base' # <<>>
             /\ prev_bureau_base' \o TrailingDigits(prev_bureau_full') = prev_bureau_full'
       ]_vars

\* an expansion, a reuse by the next counted bureau line, and a third counted bureau
\* line with the same suffix that stashed instead
C7_Witness ==
    /\ Len(log) >= 3
    /\ log[Len(log) - 2].rule = "angle"
    /\ log[Len(log) - 1].carry = "reuse"
    /\ log[Len(log)].carry = "stash"
    /\ prev_bureau_base # <<>>
    /\ last_count_str = <<>>
    /\ last_prefixes # <<>>

\* C9 as stated: every page emitted by the page-merging step has as many ＜ as ＞.
C9_AllBalanced ==
    \A k \in 1..Len(pages) : AngleBalance(pages[k]) = 0

\* C9: every page emitted by the page-merging step, except possibly the last
\* one once the raw pages are exhausted, has no more ＜ than ＞.
C9_BalancedExceptLast ==
    \A k \in 1..Len(pages) :
        (k < Len(pages) \/ pc = "merge") => AngleBalance(pages[k]) <= 0

\* a page with an open ＜ absorbed the raw page that closes it and was emitted with
\* raw pages still to come
C9_Witness ==
    /\ Len(raw_pages) >= 3
    /\ AngleBalance(raw_pages[1]) > 0
    /\ Len(pages) >= 1
    /\ pages[1] = raw_pages[1] \o <<"NL">> \o raw_pages[2]
    /\ AngleBalance(pages[1]) = 0
    /\ i = 2

\* s occurs in t as a run of consecutive characters
IsInfix(s, t) ==
    \E a \in 0..(Len(t) - Len(s)) : SubSeq(t, a + 1, a + Len(s)) = s

IsPrefix(s, t) == Len(s) <= Len(t) /\ SubSeq(t, 1, Len(s)) = s

\* a line the block joiner does not skip
KeptLine(l) == Strip(l) # <<>> /\ ~IsPageNumber(Strip(l))

TextLines(text) == SelectSeq(Split(text, "NL"), KeptLine)

\* raw pages n and n+1 printed on one page
OnePage(n) == raw_pages[n] \o <<"NL">> \o raw_pages[n + 1]

\* the last block of raw page n
OpenBlock(n) ==
    LET bs == join_continuation_lines(raw_pages[n])
    IN  IF bs = <<>> THEN <<>> ELSE bs[Len(bs)]

\* the block the span makes when raw pages n and n+1 are printed on one page
SpanBlock(n) ==
    join_continuation_lines(OnePage(n))[Len(join_continuation_lines(raw_pages[n]))]

\* an angle-bracket span opens in the last block of raw page n and its closing
\* ＞ is on the first line of raw page n+1, a continuation line
SpanCrosses(n) ==
    LET ls == TextLines(raw_pages[n + 1])
    IN  /\ OpenBlock(n) # <<>>
        /\ OpenBlock(n)[1] = "<"
        /\ ~Contains(OpenBlock(n), ">")
        /\ ls # <<>>
        /\ ls[1][1] \notin {" ", "TAB"}
        /\ ~FORCE_NEW(Strip(ls[1]))
        /\ Contains(ls[1], ">")

\* a classifier state with nothing pending
NoContext ==
    [current_ministry |-> <<>>, current_category |-> <<>>,
     prev_bureau_base |-> <<>>, prev_bureau_full |-> <<>>,
     last_prefixes |-> <<>>, last_count_str |-> <<>>,
     emitted |-> <<>>, rule |-> "none", carry |-> "none"]

\* what the block before the span on raw page n leaves pending
PendingBefore(n) ==
    LET bs == join_continuation_lines(raw_pages[n])
        norm == IF Len(bs) >= 2 THEN normalize_line(bs[Len(bs) - 1]) ELSE <<>>
    IN  IF norm # <<>> /\ norm[1] # "<"
        THEN ClassifyBlock(NoContext, norm, TRUE)
        ELSE NoContext

\* raw pages n and n+1 are emitted as one page
EmittedAsOne(n) ==
    \E k \in 1..Len(pages) : IsInfix(OnePage(n), pages[k])

\* the span is one block of an emitted page, beginning with ＜ and containing its ＞
Reassembled(n) ==
    \E k \in 1..Len(pages) :
        /\ IsInfix(OnePage(n), pages[k])
        /\ \E j \in 1..Len(join_continuation_lines(pages[k])) :
              LET b == join_continuation_lines(pages[k])[j]
              IN  b[1] = "<" /\ Contains(b, ">") /\ IsPrefix(OpenBlock(n), b)
                  /\ Len(b) > Len(OpenBlock(n))

\* the expansion records of the span printed on one page are among the records
ExpansionKept(n) ==
    LET norm == normalize_line(SpanBlock(n))
        prefixes == expand_angle_content(SubSeq(norm, 2, AngleEnd(norm) - 1))
        pend == PendingBefore(n)
    IN  (AngleEnd(norm) # 0 /\ pend.prev_bureau_base # <<>>)
            => \A a \in 1..Len(prefixes) :
                  \E r \in 1..Len(rows) :
                      /\ rows[r].bureau = prefixes[a] \o pend.prev_bureau_base
                      /\ rows[r].expanded_from = pend.prev_bureau_full
                      /\ rows[r].section = <<>>

\* C8: when an angle-bracket span opens in the last block of raw page N and closes
\* at the start of raw page N+1, the two raw pages are emitted as one page, the
\* span is one block beginning with ＜ and containing its ＞, and a bureau base
\* pending before the span yields the expansion records of the span printed on
\* one page.
C8_BoundaryMerge ==
    \A n \in 1..(Len(raw_pages) - 1) :
        SpanCrosses(n) =>
            /\ pc # "merge" => EmittedAsOne(n) /\ Reassembled(n)
            /\ pc \in {"alias", "done"} => ExpansionKept(n)

\* an item with its whitespace and its full-width annotations removed
CleanItem(item) == Strip(RemoveAnnot(RemoveWS(item), "w(", "w)"))

IsSectionName(t) == Len(t) >= 2 /\ t[Len(t)] \in SECTION_ENDINGS

\* the qualifying items of a bracket text, in list order
QualifyingItems(text) ==
    LET its == Split(text, ",")
    IN  SelectSeq([k \in 1..Len(its) |-> CleanItem(its[k])], IsSectionName)

HasSection(r) == r.section # <<>>

IsBureauAlone(r) == r.section = <<>> /\ r.expanded_from = <<>>

\* the step processes a block of the form bureau［items］trailing by the bracket rule
BracketStep ==
    /\ pc = "scan"
    /\ idx <= Len(blocks)
    /\ Len(log') = Len(log) + 1
    /\ log'[Len(log')].rule = "bracket"

EmptyInput == \A k \in 1..Len(raw_pages) : raw_pages[k] = <<>>

\* C11: an empty input page sequence is a hard failure: the run does not complete
\* normally and publishes no output set.
C11_EmptyInputFails == EmptyInput => pc # "done"

\* C12: if a canonical-name lookup fails during the alias pass the run ends in an
\* error outcome: nothing is published, and the lookups made are the calls of the
\* alias loop up to the failing one, each made once, with none after it.
C12_LookupFailureFatal ==
    pc = "error" =>
        /\ out = <<>>
        /\ lookups # <<>>
        /\ Len(lookups) <= Len(AllLookups(unique, db))
        /\ lookups = SubSeq(AllLookups(unique, db), 1, Len(lookups))

\* the candidate of a record was found and the lookup of the bureau itself failed
C12_Witness ==
    /\ pc = "error"
    /\ Len(lookups) = 2
    /\ lookups[1] \in db
    /\ unique # <<>>
    /\ out = <<>>

\* the blocks of all pages with a non-empty normalized form
RECURSIVE ScannedBlocks(_)
ScannedBlocks(pgs) ==
    IF pgs = <<>> THEN <<>>
    ELSE SelectSeq(join_continuation_lines(Head(pgs)),
                   LAMBDA b : normalize_line(b) # <<>>) \o ScannedBlocks(Tail(pgs))

\* the loop body runs on a block with a non-empty normalized form
BlockStep ==
    /\ pc = "scan"
    /\ idx <= Len(blocks)
    /\ Len(log') = Len(log) + 1

\* the scan is over
ScanOver == pc \in {"alias", "done", "error"}

\* C13: the scan processes every block and no error outcome arises before it has; a
\* block that matches no rule appends no record and leaves current_ministry,
\* current_category, last_prefixes and last_count_str as they are, prev_bureau_base
\* and prev_bureau_full being cleared.
C13_Permissive ==
    /\ [](ScanOver <=> (i = Len(raw_pages) /\ Len(log) = Len(ScannedBlocks(pages))
                          /\ page_idx = Len(pages) /\ idx > Len(blocks)
                          /\ pc # "scan"))
    /\ [][(BlockStep /\ log'[Len(log')].rule = "none")
            => /\ rows' = rows
               /\ current_ministry' = current_ministry
               /\ current_category' = current_category
               /\ last_prefixes' = last_prefixes
               /\ last_count_str' = last_count_str
               /\ prev_bureau_base' = <<>>
               /\ prev_bureau_full' = <<>>
       ]_vars

\* a line no rule takes was processed with a ministry, a category and an expansion
\* cache in place
C13_Witness ==
    /\ pc = "scan"
    /\ Len(log) >= 1
    /\ log[Len(log)].rule = "none"
    /\ normalize_line(blocks[idx - 1]) = <<"p", "q">>
    /\ current_ministry # <<>>
    /\ current_category # <<>>
    /\ last_prefixes # <<>>
    /\ last_count_str # <<>>
    /\ rows # <<>>

IsExpansion(r) == r.expanded_from # <<>>

\* the records the step appends
Appended == SubSeq(rows', Len(rows) + 1, Len(rows'))

\* the loop body runs on a block one of the two bureau rules takes
BureauStep == BlockStep /\ log'[Len(log')].rule \in {"bracket", "bureau"}

\* C14: a bureau-like block whose name ends in a digit suffix and, without it, in an
\* organizational suffix either reuses (suffix equal to last_count_str, next
\* non-empty block not an angle-bracket line, last_prefixes non-empty: one record
\* per cached prefix with bureau = prefix + stripped form and expanded_from = the
\* name, last_count_str emptied, prev_bureau_base left empty) or stashes (no
\* expansion record, prev_bureau_base / prev_bureau_full = stripped form / name);
\* a bureau-like block without such a suffix does neither.
C14_ReuseOrStash ==
    [][BureauStep =>
        LET name == BureauNameOf(normalize_line(blocks[idx]))
            digits == TrailingDigits(name)
            base == SubSeq(name, 1, Len(name) - Len(digits))
            reuse == /\ digits = last_count_str
                     /\ ~NextIsAngle(pages, page_idx, blocks, idx)
                     /\ last_prefixes # <<>>
            expansions == SelectSeq(Appended, IsExpansion)
        IN  /\ last_prefixes' = last_prefixes
            /\ IF IsCountedName(name) /\ reuse
               THEN /\ Len(expansions) = Len(last_prefixes)
                    /\ \A k \in 1..Len(expansions) :
                          /\ expansions[k].bureau = last_prefixes[k] \o base
                          /\ expansions[k].expanded_from = name
                          /\ expansions[k].section = <<>>
                    /\ last_count_str' = <<>>
                    /\ prev_bureau_base' = <<>>
                    /\ prev_bureau_full' = <<>>
               ELSE IF IsCountedName(name)
               THEN /\ expansions = <<>>
                    /\ prev_bureau_base' = base
                    /\ prev_bureau_full' = name
                    /\ last_count_str' = last_count_str
               ELSE /\ expansions = <<>>
                    /\ prev_bureau_base' = <<>>
                    /\ prev_bureau_full' = <<>>
                    /\ last_count_str' = last_count_str
    ]_vars

\* a bracketed bureau reused the cached prefixes
C14_Witness ==
    /\ pc = "scan"
    /\ Len(log) >= 1
    /\ log[Len(log)] = [rule |-> "bracket", carry |-> "reuse"]
    /\ last_prefixes # <<>>
    /\ last_count_str = <<>>
    /\ prev_bureau_base = <<>>
    /\ Len(rows) >= Len(last_prefixes) + 2
    /\ rows[Len(rows) - 2].expanded_from = <<"d", "kyoku", "F6">>

\* the loop body runs on a block whose normalized form begins with a pair ＜...＞
AngleBlockStep == BlockStep /\ AngleEnd(normalize_line(blocks[idx])) # 0

\* C15: an angle-bracket block produces expansion records only when the block
\* processed immediately before it was a bureau line that stashed prev_bureau_base.
C15_ExpansionNeedsStash ==
    [][(AngleBlockStep /\ SelectSeq(Appended, IsExpansion) # <<>>)
        => (Len(log) >= 1 /\ log[Len(log)].carry = "stash")
    ]_vars

\* C16: a block beginning with a pair ＜...＞ that is processed while prev_bureau_base
\* is empty appends no record and changes neither current_ministry nor
\* current_category, whatever follows the closing ＞.
C16_AngleIgnored ==
    [][(AngleBlockStep /\ prev_bureau_base = <<>>)
        => /\ rows' = rows
           /\ current_ministry' = current_ministry
           /\ current_category' = current_category
    ]_vars

\* the line the joining loop reads next
JoinedLine == Split(arg, "NL")[ret.line + 1]

\* the loop reads a line it does not skip while the current block has an open ［
OpenBlockStep ==
    /\ pc = "join"
    /\ ret'.line = ret.line + 1
    /\ ret.acc.has
    /\ ret.acc.open_brackets > 0
    /\ KeptLine(JoinedLine)

\* the line is appended to the current block
LineAppended ==
    /\ ret'.acc.blocks = ret.acc.blocks
    /\ ret'.acc.current = ret.acc.current \o Strip(JoinedLine)

\* C17 as stated: while the current block has an open ［, every following line that
\* is not skipped is appended to it, indented or not, of forced-new shape or not.
C17_OpenBlockAbsorbsAll == [][OpenBlockStep => LineAppended]_vars

\* C17: while the current block has an open ［, every following line that is not
\* skipped and is not indented is appended to it, of forced-new shape or not; an
\* indented line closes the block and starts a new one.
C17_OpenBlockAbsorbsUnindented ==
    [][OpenBlockStep =>
        IF JoinedLine[1] \in {" ", "TAB"}
        THEN /\ ret'.acc.blocks = Append(ret.acc.blocks, ret.acc.current)
             /\ ret'.acc.current = Strip(JoinedLine)
        ELSE LineAppended
    ]_vars

\* a line of forced-new shape was appended to a block with an open ［
C17_Witness ==
    /\ pc = "join"
    /\ ret.line = 2
    /\ ret.acc.blocks = <<>>
    /\ ret.acc.current = <<"a", "[", "b", "<", "e">>
    /\ ret.acc.open_brackets = 1

\* the depth of ［ after the text s read from depth d, -1 once a ］ has no ［ to close
RECURSIVE BracketDepth(_, _)
BracketDepth(s, d) ==
    IF d < 0 \/ s = <<>> THEN d
    ELSE BracketDepth(Tail(s), IF Head(s) = "[" THEN d + 1
                               ELSE IF Head(s) = "]" THEN d - 1 ELSE d)

\* ［ and ］ are properly nested and paired
WellBracketed(s) == BracketDepth(s, 0) = 0

\* C18: in block joining the open-bracket counter is non-negative after every
\* processed line, and for input whose ［ and ］ are properly nested and paired it is
\* zero whenever a block is closed.
C18_CounterInvariant ==
    /\ [](pc = "join" => ret.acc.open_brackets >= 0)
    /\ [][(/\ pc = "join"
           /\ WellBracketed(arg)
           /\ ret.acc.has
           /\ \/ pc' = "joined"
              \/ Len(ret'.acc.blocks) > Len(ret.acc.blocks))
          => ret.acc.open_brackets = 0
       ]_vars

\* the characters the claim counts as ordinal or numeral markers
MarkerChars == HeaderMarkers \cup KanjiChars

\* the length of the leading run of marker characters of s
RECURSIVE MarkerRun(_)
MarkerRun(s) ==
    IF s # <<>> /\ Head(s) \in MarkerChars THEN 1 + MarkerRun(Tail(s)) ELSE 0

\* what follows the leading run of marker characters
MarkedName(s) == SubSeq(s, MarkerRun(s) + 1, Len(s))

\* a leading run of marker characters followed by a name with a top-level suffix
IsMarkedHeader(s) ==
    /\ MarkerRun(s) >= 1
    /\ MarkedName(s) # <<>>
    /\ s[Len(s)] \in MinistryEnds

\* the loop body runs on such a block
MarkedHeaderStep == BlockStep /\ IsMarkedHeader(normalize_line(blocks[idx]))

\* C19: a block made of a leading run of marker characters and a name N with a
\* top-level suffix sets current_ministry to N, clears current_category and appends
\* no record when N is not the generic phrase, and leaves current_ministry and
\* current_category unchanged when it is.
C19_HeaderSetsMinistry ==
    [][MarkedHeaderStep =>
        LET N == MarkedName(normalize_line(blocks[idx]))
        IN  IF IsGenericPhrase(N)
            THEN /\ current_ministry' = current_ministry
                 /\ current_category' = current_category
            ELSE /\ current_ministry' = N
                 /\ current_category' = <<>>
                 /\ rows' = rows
    ]_vars

\* the rules that set current_ministry
MinistryRules == {"header", "ministry"}

\* current_category is empty or a category block was processed after the last block
\* of a rule that sets current_ministry
CategoryInScope ==
    \/ current_category = <<>>
    \/ \E k \in 1..Len(log) :
          /\ log[k].rule = "category"
          /\ \A j \in (k + 1)..Len(log) : log[j].rule \notin MinistryRules

\* current_category changes only by a category block, which sets it to the text
\* after its marker, or by a block that sets current_ministry, which empties it;
\* the records a block appends carry current_ministry and current_category
CategoryDiscipline ==
    /\ current_category' # current_category
          => /\ BlockStep
             /\ \/ /\ log'[Len(log')].rule = "category"
                   /\ current_category' = Tail(normalize_line(blocks[idx]))
                \/ /\ log'[Len(log')].rule \in MinistryRules
                   /\ current_category' = <<>>
    /\ current_ministry' # current_ministry
          => /\ BlockStep
             /\ log'[Len(log')].rule \in MinistryRules
             /\ current_category' = <<>>
    /\ BlockStep
          => \A k \in 1..Len(Appended) :
                /\ Appended[k].ministry = current_ministry
                /\ Appended[k].category = current_category

\* the loop body runs on a block the category rule takes
CategoryStep == BlockStep /\ log'[Len(log')].rule = "category"

\* C20 as stated: current_category is empty or was set by a category block
\* processed after the most recent block that set current_ministry, every record
\* carries the ministry and the category of its block, and a category block
\* changes current_category only.
C20_CategoryOnly ==
    /\ []CategoryInScope
    /\ [][/\ CategoryDiscipline
          /\ CategoryStep
                => /\ rows' = rows
                   /\ current_ministry' = current_ministry
                   /\ last_prefixes' = last_prefixes
                   /\ last_count_str' = last_count_str
                   /\ prev_bureau_base' = prev_bureau_base
                   /\ prev_bureau_full' = prev_bureau_full
       ]_vars

\* C20: current_category is empty or was set by a category block processed after
\* the most recent block that set current_ministry, every record carries the
\* ministry and the category of its block, and a category block appends no record
\* and changes current_category only, apart from emptying prev_bureau_base and
\* prev_bureau_full as every block does.
C20_CategoryScoped ==
    /\ []CategoryInScope
    /\ [][/\ CategoryDiscipline
          /\ CategoryStep
                => /\ rows' = rows
                   /\ current_ministry' = current_ministry
                   /\ last_prefixes' = last_prefixes
                   /\ last_count_str' = last_count_str
                   /\ prev_bureau_base' = <<>>
                   /\ prev_bureau_full' = <<>>
       ]_vars

\* a category was set under one ministry, emptied by the next ministry header and set
\* again: the record after it carries the second ministry and the second category
C20_Witness ==
    /\ pc = "scan"
    /\ Len(log) = 3
    /\ log[1].rule = "category"
    /\ log[2].rule = "header"
    /\ log[3].rule = "category"
    /\ current_ministry = <<"c", "d", "chou">>
    /\ current_category = <<"c", "d", "kyoku">>

\* the number of records the step produces by template expansion: one per prefix
\* of the angle-bracket expansion or of the sibling carry-over
ExpansionCount ==
    IF log'[Len(log')].rule = "angle" THEN Len(last_prefixes')
    ELSE IF log'[Len(log')].carry = "reuse" THEN Len(last_prefixes)
    ELSE 0

\* the prefixes the step expands with
ExpansionPrefixes ==
    IF log'[Len(log')].rule = "angle" THEN last_prefixes' ELSE last_prefixes

\* s without its trailing digits
WithoutTrailingDigits(s) == SubSeq(s, 1, Len(s) - Len(TrailingDigits(s)))

\* C21: of the records a block appends, those produced by template expansion (an
\* angle-bracket expansion or a sibling carry-over) come first, one per prefix, with
\* expanded_from non-empty, section empty and bureau = prefix + expanded_from
\* without its trailing digits; the records read literally (the bureau alone and
\* its sections) follow with expanded_from empty.
C21_ExpandedFromIffExpansion ==
    [][BlockStep =>
        /\ Len(Appended) >= ExpansionCount
        /\ \A k \in 1..Len(Appended) :
              IF k <= ExpansionCount
              THEN /\ Appended[k].expanded_from # <<>>
                   /\ Appended[k].section = <<>>
                   /\ Appended[k].bureau =
                         ExpansionPrefixes[k]
                            \o WithoutTrailingDigits(Appended[k].expanded_from)
              ELSE /\ Appended[k].expanded_from = <<>>
                   /\ log'[Len(log')].rule \in {"bracket", "bureau"}
                   /\ Appended[k].bureau = BureauNameOf(normalize_line(blocks[idx]))
    ]_vars

\* a bracketed sibling was expanded from the cache: the step appended one record
\* per cached prefix, then the bureau alone and its section
C21_Witness ==
    /\ pc = "scan"
    /\ Len(log) >= 3
    /\ log[Len(log)] = [rule |-> "bracket", carry |-> "reuse"]
    /\ log[Len(log) - 1].rule = "angle"
    /\ Len(rows) >= 2
    /\ rows[Len(rows)].section = <<"f", "ka">>
    /\ rows[Len(rows)].expanded_from = <<>>
    /\ rows[Len(rows) - 1].section = <<>>
    /\ rows[Len(rows) - 1].expanded_from = <<>>
    /\ \E k \in 1..Len(rows) :
          /\ rows[k].expanded_from = <<"d", "kyoku", "F6">>
          /\ rows[k].bureau = last_prefixes[1] \o <<"d", "kyoku">>

\* the lookahead of the block at idx
Lookahead == NextIsAngle(pages, page_idx, blocks, idx)

\* what the loop body does with the block at idx under the lookahead value v
OutcomeUnder(v) == ClassifyBlock(Ctx, normalize_line(blocks[idx]), v)

\* the records of o that are read literally
LiteralRecords(o) == SelectSeq(o.emitted, LAMBDA r : ~IsExpansion(r))

\* o reuses last_prefixes where p stashes, and they differ in nothing else
ReuseAgainstStash(o, p) ==
    /\ o.carry = "reuse"
    /\ p.carry = "stash"
    /\ SelectSeq(p.emitted, IsExpansion) = <<>>
    /\ o.prev_bureau_base = <<>>
    /\ o.last_count_str = <<>>
    /\ p.last_count_str = last_count_str

\* C22: the step on a block is the one the lookahead value gives, and with the
\* other lookahead value the block would match the same rule, append the same
\* literal records and leave the same current_ministry, current_category and
\* last_prefixes; the two outcomes differ only when one reuses last_prefixes and the
\* other stashes prev_bureau_base.
C22_LookaheadFrame ==
    [][BlockStep =>
        LET o == OutcomeUnder(Lookahead)
            p == OutcomeUnder(~Lookahead)
        IN  /\ rows' = rows \o o.emitted
            /\ log'[Len(log')].rule = o.rule
            /\ current_ministry' = o.current_ministry
            /\ current_category' = o.current_category
            /\ p.rule = o.rule
            /\ LiteralRecords(p) = LiteralRecords(o)
            /\ p.current_ministry = o.current_ministry
            /\ p.current_category = o.current_category
            /\ p.last_prefixes = o.last_prefixes
            /\ p # o => IF Lookahead THEN ReuseAgainstStash(p, o)
                                     ELSE ReuseAgainstStash(o, p)
    ]_vars

\* a counted bureau with the count of the cached expansion was stashed, not
\* expanded from the cache, because the block after it is an angle-bracket line
C22_Witness ==
    /\ pc = "scan"
    /\ Len(log) >= 1
    /\ log[Len(log)].carry = "stash"
    /\ last_prefixes # <<>>
    /\ last_count_str # <<>>
    /\ last_count_str = TrailingDigits(prev_bureau_full)
    /\ idx <= Len(blocks)
    /\ AngleEnd(normalize_line(blocks[idx])) # 0

\* a line that is blank or purely a page number of one to three digits
IsSkippedLine(l) ==
    \/ Strip(l) = <<>>
    \/ Len(Strip(l)) <= 3 /\ \A j \in 1..Len(Strip(l)) : Strip(l)[j] \in Digits

\* the stripped forms, in order and joined with nothing between them, of the lines
\* that are not skipped
RECURSIVE KeptText(_)
KeptText(lines) ==
    IF lines = <<>> THEN <<>>
    ELSE (IF IsSkippedLine(Head(lines)) THEN <<>> ELSE Strip(Head(lines)))
            \o KeptText(Tail(lines))

\* the text block joining holds after the lines read so far
JoinedSoFar == Flatten(ret.acc.blocks) \o ret.acc.current

StashSuffixes == {"kyoku", "bu", "jo", "sho", "tai", "chou", "kai", "kou", "ku"}

\* prev_bureau_base and prev_bureau_full are both empty, or prev_bureau_full is
\* prev_bureau_base followed by a non-empty digit run and prev_bureau_base ends in
\* an organizational suffix
StashWellFormed ==
    /\ prev_bureau_base = <<>> <=> prev_bureau_full = <<>>
    /\ prev_bureau_base # <<>> =>
          /\ TrailingDigits(prev_bureau_full) # <<>>
          /\ prev_bureau_full = prev_bureau_base \o TrailingDigits(prev_bureau_full)
          /\ prev_bureau_base[Len(prev_bureau_base)] \in StashSuffixes

\* the loop body runs on a block the angle rule expands
ExpansionStep == BlockStep /\ log'[Len(log')].rule = "angle"

\* C24: at every block boundary prev_bureau_base and prev_bureau_full are both
\* empty or both non-empty, and then prev_bureau_full ends in a non-empty digit
\* run, prev_bureau_base is prev_bureau_full without it and ends in an
\* organizational suffix; after every angle-bracket expansion last_count_str is
\* that digit run, non-empty, and the stash is empty.
C24_StashWellFormed ==
    /\ []StashWellFormed
    /\ [][ExpansionStep =>
            /\ prev_bureau_base # <<>>
            /\ last_count_str' # <<>>
            /\ last_count_str' = TrailingDigits(prev_bureau_full)
            /\ prev_bureau_base' = <<>>
            /\ prev_bureau_full' = <<>>
       ]_vars

\* a stashed counted bureau was expanded by the angle-bracket line after it
C24_Witness ==
    /\ pc = "scan"
    /\ Len(log) >= 2
    /\ log[Len(log) - 1].carry = "stash"
    /\ log[Len(log)].rule = "angle"
    /\ last_count_str = <<"F6">>
    /\ rows # <<>>
    /\ rows[Len(rows)].expanded_from = <<"c", "kyoku", "F6">>
    /\ prev_bureau_base = <<>>
    /\ prev_bureau_full = <<>>

=============================================================================
